---------------------------- MODULE Spec2Model ----------------------------
(***************************************************************************)
(* Model of the tempo-reactive visualization code of spotify-player:       *)
(*   waveform_test/src/main.rs            demo render loop, radial waves   *)
(*   spotify_player/src/ui/visualizations.rs  linear wave, palette, colours*)
(*   spotify_player/src/utils.rs          dominant-colour extraction       *)
(*                                                                         *)
(* Numbers.  The code computes in f64.  The model computes in exact        *)
(* integer arithmetic on fixed grids:                                      *)
(*   - an intensity is a pair num/den;                                     *)
(*   - beat_progress is a numerator over PhaseDen (radial renderer) or     *)
(*     over LinearPhaseSteps (linear renderer);                            *)
(*   - distances and radial intensities are in units of 1/DistScale;       *)
(*   - sine is a fixed-point Taylor polynomial in units of 1/SinScale.     *)
(* `as u8` is Rust's saturating, truncating float-to-int cast.  Products   *)
(* of a channel with the literals 0.85, 0.7, 0.5 are computed with the     *)
(* double nearest to the literal and IEEE round-to-nearest-even (see       *)
(* F64MulTrunc).                                                           *)
(***************************************************************************)
EXTENDS Integers, Sequences, FiniteSets, TLC

VARIABLES
    pc,                     \* control position (main loop) / "input","output" (pure functions)
    raw_mode,               \* terminal raw mode is enabled
    alt_screen,             \* terminal is in the alternate screen
    loop_exit,              \* how the render loop of main() ended ("none" while it has not)
    current_color_scheme,   \* App.current_color_scheme
    simulated_bpm,          \* App.simulated_bpm
    since_tick,             \* min(last_tick.elapsed(), tick_rate) in ms
    key,                    \* key.code of the last key event read ("none" before any)
    area,                   \* Rect handed to a renderer: [width, height]
    elapsed,                \* app.start_time.elapsed() in units of 1/TicksPerSec s
    beat_progress,          \* numerator of the beat phase over PhaseDen
    album_color,            \* Option<(u8,u8,u8)>: <<>> is None, <<c>> is Some(c)
    text,                   \* the grid a renderer built: text[y][x] is a cell
    scheme,                 \* ColorScheme argument of get_color_for_scheme
    intensity,              \* intensity argument: <<num, den>>
    level,                  \* level argument (u8)
    color,                  \* Color::Rgb result
    rgb,                    \* base colour handed to generate_color_palette
    palette,                \* AlbumPalette.colors
    img,                    \* decoded image: [w, h, px] with px[y][x] a colour
    dominant                \* result of extract_dominant_color

mainVars    == <<raw_mode, alt_screen, loop_exit, since_tick, key>>
appVars     == <<current_color_scheme, simulated_bpm>>
renderVars  == <<area, elapsed, beat_progress, text>>
colorVars   == <<scheme, intensity, level, color>>
paletteVars == <<rgb, palette>>
imageVars   == <<img, dominant>>
vars == <<pc, mainVars, appVars, renderVars, album_color, colorVars,
          paletteVars, imageVars>>

None == <<>>
Some(c) == <<c>>

Min(a, b) == IF a < b THEN a ELSE b
Max(a, b) == IF a > b THEN a ELSE b

(***************************************************************************)
(* Values of the variables a specification does not use.                   *)
(***************************************************************************)
IdleMain    == raw_mode = FALSE /\ alt_screen = FALSE /\ loop_exit = "none"
               /\ since_tick = 0 /\ key = "none"
IdleApp     == current_color_scheme = 0 /\ simulated_bpm = 120
IdleRender  == area = [width |-> 0, height |-> 0] /\ elapsed = 0
               /\ beat_progress = 0 /\ text = <<>>
IdleColor   == scheme = "Cyan" /\ intensity = <<0, 1>> /\ level = 0
               /\ color = <<>>
IdlePalette == rgb = <<0, 0, 0>> /\ palette = <<>>
IdleImage   == img = [w |-> 0, h |-> 0, px |-> <<>>] /\ dominant = <<>>

(***************************************************************************)
(* waveform_test/src/main.rs: App                                          *)
(***************************************************************************)
NumSchemes == 6
InitialBpm == 120
BpmStep == 10
MaxBpm == 200
MinBpm == 60
TickRateMs == 50

next_color(s) == (s + 1) % NumSchemes

\* mutant of prev_color: the wrap is off by one
prev_color_wraps_to_six(s) == IF s = 0 THEN 6 ELSE s - 1

prev_color(s) == IF s = 0 THEN 5 ELSE s - 1

\* mutant of increase_bpm: the `.min(200.0)` is left out
increase_bpm_unclamped(b) == b + BpmStep

increase_bpm(b) == Min(b + BpmStep, MaxBpm)

decrease_bpm(b) == Max(b - BpmStep, MinBpm)

color_scheme(s) ==
    CASE s = 0 -> "Cyan"
      [] s = 1 -> "Warm"
      [] s = 2 -> "Purple"
      [] s = 3 -> "Green"
      [] s = 4 -> "Sunset"
      [] OTHER -> "Ocean"

(***************************************************************************)
(* waveform_test/src/main.rs: main().  Every fallible call is one step     *)
(* whose outcome (Ok or Err) is chosen by the environment; `?` returns     *)
(* from main at once.                                                      *)
(***************************************************************************)
IoResult == {"Ok", "Err"}
KeyCodes == {"q", "Right", "n", "Left", "p", "Up", "Down", "Other"}
\* time a blocking call may take, in ms
Delays == {0, 20, 50}

Advance(d) == Min(since_tick + d, TickRateMs)

\* `?` on an Err: main returns with the terminal as it is
ReturnErr(how) ==
    /\ pc' = "returned"
    /\ loop_exit' = how

InitMain ==
    /\ pc = "enable_raw_mode"
    /\ raw_mode = FALSE /\ alt_screen = FALSE
    /\ loop_exit = "none"
    /\ since_tick = 0
    /\ key = "none"
    /\ current_color_scheme = 0
    /\ simulated_bpm = InitialBpm
    /\ IdleRender /\ album_color = None /\ IdleColor /\ IdlePalette /\ IdleImage

notMain == <<renderVars, album_color, colorVars, paletteVars, imageVars>>

\* line 90: enable_raw_mode()?
EnableRawMode ==
    /\ pc = "enable_raw_mode"
    /\ \E r \in IoResult :
         IF r = "Ok"
         THEN /\ raw_mode' = TRUE
              /\ pc' = "enter_alt"
              /\ UNCHANGED loop_exit
         ELSE /\ ReturnErr("none")
              /\ UNCHANGED raw_mode
    /\ UNCHANGED <<alt_screen, since_tick, key, appVars, notMain>>

\* line 92: execute!(stdout, EnterAlternateScreen)?
EnterAlternateScreen ==
    /\ pc = "enter_alt"
    /\ \E r \in IoResult :
         IF r = "Ok"
         THEN /\ alt_screen' = TRUE
              /\ pc' = "terminal_new"
              /\ UNCHANGED loop_exit
         ELSE /\ ReturnErr("none")
              /\ UNCHANGED alt_screen
    /\ UNCHANGED <<raw_mode, since_tick, key, appVars, notMain>>

\* lines 93-98: Terminal::new(backend)?; App::new(); last_tick = now
TerminalNew ==
    /\ pc = "terminal_new"
    /\ \E r \in IoResult :
         IF r = "Ok"
         THEN /\ pc' = "draw"
              /\ current_color_scheme' = 0
              /\ simulated_bpm' = InitialBpm
              /\ since_tick' = 0
              /\ UNCHANGED loop_exit
         ELSE /\ ReturnErr("none")
              /\ UNCHANGED <<appVars, since_tick>>
    /\ UNCHANGED <<raw_mode, alt_screen, key, notMain>>

\* line 101: terminal.draw(|f| ui(f, &app))?
Draw ==
    /\ pc = "draw"
    /\ \E r \in IoResult, d \in Delays :
         IF r = "Ok"
         THEN /\ pc' = "poll"
              /\ since_tick' = Advance(d)
              /\ UNCHANGED loop_exit
         ELSE /\ ReturnErr("draw_err")
              /\ UNCHANGED since_tick
    /\ UNCHANGED <<raw_mode, alt_screen, key, appVars, notMain>>

\* lines 103-107: timeout = tick_rate - last_tick.elapsed() (0 when past);
\* event::poll(timeout)? is true when an event arrives within the timeout
Poll ==
    /\ pc = "poll"
    /\ LET timeout == TickRateMs - since_tick IN
       \/ \E d \in Delays :
            /\ d <= timeout
            /\ pc' = "read"
            /\ since_tick' = Advance(d)
            /\ UNCHANGED loop_exit
       \/ /\ pc' = "tick"
          /\ since_tick' = Advance(timeout)
          /\ UNCHANGED loop_exit
       \/ /\ ReturnErr("poll_err")
          /\ UNCHANGED since_tick
    /\ UNCHANGED <<raw_mode, alt_screen, key, appVars, notMain>>

\* lines 108-117: event::read()? and the key dispatch
Read ==
    /\ pc = "read"
    /\ \/ \E k \in KeyCodes :
            /\ key' = k
            /\ CASE k = "q" -> /\ pc' = "disable_raw_mode"
                               /\ loop_exit' = "quit"
                               /\ UNCHANGED appVars
                 [] k \in {"Right", "n"} ->
                               /\ current_color_scheme' = next_color(current_color_scheme)
                               /\ pc' = "tick"
                               /\ UNCHANGED <<simulated_bpm, loop_exit>>
                 [] k \in {"Left", "p"} ->
                               /\ current_color_scheme' = prev_color(current_color_scheme)
                               /\ pc' = "tick"
                               /\ UNCHANGED <<simulated_bpm, loop_exit>>
                 [] k = "Up" -> /\ simulated_bpm' = increase_bpm(simulated_bpm)
                                /\ pc' = "tick"
                                /\ UNCHANGED <<current_color_scheme, loop_exit>>
                 [] k = "Down" -> /\ simulated_bpm' = decrease_bpm(simulated_bpm)
                                  /\ pc' = "tick"
                                  /\ UNCHANGED <<current_color_scheme, loop_exit>>
                 [] OTHER -> /\ pc' = "tick"
                             /\ UNCHANGED <<appVars, loop_exit>>
       \* an event that is not a key (resize, mouse, ...)
       \/ /\ pc' = "tick"
          /\ key' = "none"
          /\ UNCHANGED <<appVars, loop_exit>>
       \/ /\ ReturnErr("read_err")
          /\ UNCHANGED <<appVars, key>>
    /\ UNCHANGED <<raw_mode, alt_screen, since_tick, notMain>>

\* lines 120-122: if last_tick.elapsed() >= tick_rate { last_tick = now }
Tick ==
    /\ pc = "tick"
    /\ since_tick' = IF since_tick >= TickRateMs THEN 0 ELSE since_tick
    /\ pc' = "draw"
    /\ UNCHANGED <<raw_mode, alt_screen, loop_exit, key, appVars, notMain>>

\* line 126: disable_raw_mode()?
DisableRawMode ==
    /\ pc = "disable_raw_mode"
    /\ \E r \in IoResult :
         IF r = "Ok"
         THEN /\ raw_mode' = FALSE
              /\ pc' = "leave_alt"
         ELSE /\ pc' = "returned"
              /\ UNCHANGED raw_mode
    /\ UNCHANGED <<alt_screen, loop_exit, since_tick, key, appVars, notMain>>

\* line 127: execute!(terminal.backend_mut(), LeaveAlternateScreen)?
LeaveAlternateScreen ==
    /\ pc = "leave_alt"
    /\ \E r \in IoResult :
         IF r = "Ok"
         THEN /\ alt_screen' = FALSE
              /\ pc' = "show_cursor"
         ELSE /\ pc' = "returned"
              /\ UNCHANGED alt_screen
    /\ UNCHANGED <<raw_mode, loop_exit, since_tick, key, appVars, notMain>>

\* lines 128-130: terminal.show_cursor()?; Ok(())
ShowCursor ==
    /\ pc = "show_cursor"
    /\ pc' = "returned"
    /\ UNCHANGED <<mainVars, appVars, notMain>>

Next ==
    \/ EnableRawMode
    \/ EnterAlternateScreen
    \/ TerminalNew
    \/ Draw
    \/ Poll
    \/ Read
    \/ Tick
    \/ DisableRawMode
    \/ LeaveAlternateScreen
    \/ ShowCursor

Spec == InitMain /\ [][Next]_vars

(***************************************************************************)
(* C1: on every path by which the render loop ends (quit key, or an I/O    *)
(* failure of draw, poll or read) the terminal has been restored when      *)
(* main returns: raw mode is off and the alternate screen has been left.   *)
(***************************************************************************)
C1_RestoredOnEveryLoopExit ==
    (pc = "returned" /\ loop_exit # "none") => (~raw_mode /\ ~alt_screen)

(***************************************************************************)
(* C12: from the initial 120, after any sequence of increase_bpm (+10) and *)
(* decrease_bpm (-10), simulated_bpm stays within [60, 200], so it is      *)
(* never 0 or negative when a frame is drawn; increase_bpm at 200 and      *)
(* decrease_bpm at 60 leave it unchanged.                                  *)
(***************************************************************************)
C12_BpmClamped ==
    /\ simulated_bpm >= 60 /\ simulated_bpm <= 200
    /\ pc = "draw" => simulated_bpm > 0
    /\ simulated_bpm = 200 => increase_bpm(simulated_bpm) = 200
    /\ simulated_bpm = 60 => decrease_bpm(simulated_bpm) = 60
    /\ increase_bpm(simulated_bpm) \in 60..200
    /\ decrease_bpm(simulated_bpm) \in 60..200

\* the Up key has just been dispatched and the value sits at the upper limit
C12_Witness ==
    /\ pc = "tick" /\ key = "Up"
    /\ simulated_bpm = 200

(***************************************************************************)
(* C13: current_color_scheme stays in 0..5 (prev_color at 0 gives 5,       *)
(* next_color at 5 gives 0); next_color then prev_color, and prev_color    *)
(* then next_color, restore the index; six next_color calls return to the  *)
(* start; neither operation changes simulated_bpm.                         *)
(***************************************************************************)
C13_Range ==
    LET s == current_color_scheme IN
    /\ s \in 0..5
    /\ prev_color(next_color(s)) = s
    /\ next_color(prev_color(s)) = s
    /\ next_color(next_color(next_color(next_color(next_color(next_color(s)))))) = s
    /\ color_scheme(s) \in {"Cyan", "Warm", "Purple", "Green", "Sunset", "Ocean"}

C13_Step ==
    /\ (pc = "read" /\ pc' = "tick" /\ key' \in {"Right", "n"}) =>
          /\ current_color_scheme' =
                (IF current_color_scheme = 5 THEN 0 ELSE current_color_scheme + 1)
          /\ simulated_bpm' = simulated_bpm
    /\ (pc = "read" /\ pc' = "tick" /\ key' \in {"Left", "p"}) =>
          /\ current_color_scheme' =
                (IF current_color_scheme = 0 THEN 5 ELSE current_color_scheme - 1)
          /\ simulated_bpm' = simulated_bpm

TruncDiv(n, d) == IF n >= 0 THEN n \div d ELSE -((-n) \div d)

\* `(n/d) as u8`: truncates toward zero and saturates at 0 and 255
AsU8(n, d) == Min(Max(TruncDiv(n, d), 0), 255)

\* the largest power of two that is < n (n >= 2)
RECURSIVE Pow2Below(_)
Pow2Below(n) == IF n <= 2 THEN 1 ELSE 2 * Pow2Below((n + 1) \div 2)

(***************************************************************************)
(* A decimal literal as the double the compiler stores for it:             *)
(* value = num/den - (err5/5) * 2^-53.                                     *)
(***************************************************************************)
Lit085 == [num |-> 17, den |-> 20, err5 |-> 1]
Lit07  == [num |-> 7,  den |-> 10, err5 |-> 2]
Lit05  == [num |-> 1,  den |-> 2,  err5 |-> 0]

(***************************************************************************)
(* `(c as f64 * lit) as u8` for a channel c in 0..255.  When c*num/den is  *)
(* not an integer the double product is within 2^-45 of it and truncates   *)
(* to its floor.  When it is an integer q, the exact product is            *)
(* q - c*(err5/5)*2^-53 and round-to-nearest-even returns q unless that    *)
(* lies more than half a spacing (2^-53 times the largest power of two     *)
(* below q) under q; then the product is the double just under q and the   *)
(* cast gives q - 1 (0.7: c = 90, 170, 180).  q < 2 with an integer        *)
(* product happens only for c = 0, which is exact.                         *)
(***************************************************************************)
F64MulTrunc(c, lit) ==
    LET p == c * lit.num
        q == p \div lit.den
    IN  IF p % lit.den # 0 \/ q < 2 \/ lit.err5 = 0 THEN q
        ELSE IF c * lit.err5 <= 5 * Pow2Below(q) THEN q
        ELSE q - 1

(***************************************************************************)
(* spotify_player/src/ui/visualizations.rs: get_color_for_scheme           *)
(***************************************************************************)
Schemes == {"Cyan", "Warm", "Purple", "Green", "Sunset", "Ocean", "Custom"}
BuiltinSchemes == Schemes \ {"Custom"}

\* `match level { 0 => .., 1 => .., 2 => .., _ => .. }`
MatchLevel(lv, a, b, c, d) ==
    CASE lv = 0 -> a
      [] lv = 1 -> b
      [] lv = 2 -> c
      [] OTHER  -> d

\* mutant of apply_intensity: the cast rounds to nearest instead of truncating
apply_intensity_rounding(base, i) ==
    << AsU8(2 * base[1] * i[1] + i[2], 2 * i[2]),
       AsU8(2 * base[2] * i[1] + i[2], 2 * i[2]),
       AsU8(2 * base[3] * i[1] + i[2], 2 * i[2]) >>

\* Color::Rgb((base.0 as f64 * intensity) as u8, ...)
apply_intensity(base, i) ==
    << AsU8(base[1] * i[1], i[2]),
       AsU8(base[2] * i[1], i[2]),
       AsU8(base[3] * i[1], i[2]) >>

\* mutant of CustomBase: the level 2 arm copies the level 1 factor
CustomBase_copied_factor(lv, c) ==
    MatchLevel(lv,
        c,
        << F64MulTrunc(c[1], Lit085), F64MulTrunc(c[2], Lit085), F64MulTrunc(c[3], Lit085) >>,
        << F64MulTrunc(c[1], Lit085), F64MulTrunc(c[2], Lit085), F64MulTrunc(c[3], Lit085) >>,
        << F64MulTrunc(c[1], Lit05),  F64MulTrunc(c[2], Lit05),  F64MulTrunc(c[3], Lit05) >>)

\* the Custom arm's gradient from the album colour
CustomBase(lv, c) ==
    MatchLevel(lv,
        c,
        << F64MulTrunc(c[1], Lit085), F64MulTrunc(c[2], Lit085), F64MulTrunc(c[3], Lit085) >>,
        << F64MulTrunc(c[1], Lit07),  F64MulTrunc(c[2], Lit07),  F64MulTrunc(c[3], Lit07) >>,
        << F64MulTrunc(c[1], Lit05),  F64MulTrunc(c[2], Lit05),  F64MulTrunc(c[3], Lit05) >>)

\* the built-in arms' `base` tables
SchemeBase(s, lv) ==
    CASE s = "Cyan"   -> MatchLevel(lv, <<0, 255, 255>>, <<0, 200, 255>>,
                                        <<0, 150, 200>>, <<0, 100, 150>>)
      [] s = "Warm"   -> MatchLevel(lv, <<255, 100, 0>>, <<255, 150, 50>>,
                                        <<200, 100, 0>>, <<150, 70, 0>>)
      [] s = "Purple" -> MatchLevel(lv, <<200, 50, 255>>, <<180, 80, 230>>,
                                        <<150, 50, 200>>, <<100, 30, 150>>)
      [] s = "Green"  -> MatchLevel(lv, <<50, 255, 150>>, <<50, 220, 120>>,
                                        <<30, 180, 100>>, <<20, 120, 70>>)
      [] s = "Sunset" -> MatchLevel(lv, <<255, 100, 150>>, <<255, 150, 100>>,
                                        <<200, 100, 100>>, <<150, 70, 80>>)
      [] s = "Ocean"  -> MatchLevel(lv, <<0, 150, 255>>, <<20, 120, 220>>,
                                        <<10, 80, 180>>, <<5, 50, 120>>)

\* mutant of get_color_for_scheme: Custom without an album colour always
\* falls back to the brightest cyan tier
get_color_for_scheme_fallback_level0(s, i, lv, album) ==
    IF s = "Custom"
    THEN IF album # None
         THEN apply_intensity(CustomBase(lv, album[1]), i)
         ELSE apply_intensity(SchemeBase("Cyan", 0), i)
    ELSE apply_intensity(SchemeBase(s, lv), i)

get_color_for_scheme(s, i, lv, album) ==
    IF s = "Custom"
    THEN IF album # None
         THEN apply_intensity(CustomBase(lv, album[1]), i)
         ELSE apply_intensity(SchemeBase("Cyan", lv), i)
    ELSE apply_intensity(SchemeBase(s, lv), i)

(***************************************************************************)
(* waveform_test/src/main.rs: get_color_for_scheme (its own copy of the    *)
(* six built-in tables, no Custom scheme, no album colour)                 *)
(***************************************************************************)
DemoSchemeBase(s, lv) ==
    CASE s = "Cyan"   -> MatchLevel(lv, <<0, 255, 255>>, <<0, 200, 255>>,
                                        <<0, 150, 200>>, <<0, 100, 150>>)
      [] s = "Warm"   -> MatchLevel(lv, <<255, 100, 0>>, <<255, 150, 50>>,
                                        <<200, 100, 0>>, <<150, 70, 0>>)
      [] s = "Purple" -> MatchLevel(lv, <<200, 50, 255>>, <<180, 80, 230>>,
                                        <<150, 50, 200>>, <<100, 30, 150>>)
      [] s = "Green"  -> MatchLevel(lv, <<50, 255, 150>>, <<50, 220, 120>>,
                                        <<30, 180, 100>>, <<20, 120, 70>>)
      [] s = "Sunset" -> MatchLevel(lv, <<255, 100, 150>>, <<255, 150, 100>>,
                                        <<200, 100, 100>>, <<150, 70, 80>>)
      [] s = "Ocean"  -> MatchLevel(lv, <<0, 150, 255>>, <<20, 120, 220>>,
                                        <<10, 80, 180>>, <<5, 50, 120>>)

demo_get_color_for_scheme(s, i, lv) == apply_intensity(DemoSchemeBase(s, lv), i)

(***************************************************************************)
(* The colour resolver applied to one input.                               *)
(***************************************************************************)
IntBits == 3
MaxLevel == 4

RECURSIVE Pow2(_)
Pow2(n) == IF n = 0 THEN 1 ELSE 2 * Pow2(n - 1)

\* intensities k / 2^IntBits in [0,1]: exact doubles, and so are their
\* products with a channel
Intensities == { <<k, Pow2(IntBits)>> : k \in 0..Pow2(IntBits) }
Levels == (0..MaxLevel) \cup {255}
ChanVals == {0, 50, 90, 100, 200, 255}
AlbumColors == { <<r, g, b>> : r \in ChanVals, g \in ChanVals, b \in ChanVals }

InitColor ==
    /\ pc = "input"
    /\ scheme \in Schemes
    /\ intensity \in Intensities
    /\ level \in Levels
    /\ album_color \in {None} \cup { Some(c) : c \in AlbumColors }
    /\ color = <<>>
    /\ IdleMain /\ IdleApp /\ IdleRender /\ IdlePalette /\ IdleImage

ResolveColor ==
    /\ pc = "input"
    /\ color' = get_color_for_scheme(scheme, intensity, level, album_color)
    /\ pc' = "output"
    /\ UNCHANGED <<mainVars, appVars, renderVars, album_color, scheme,
                   intensity, level, paletteVars, imageVars>>

NextColor == ResolveColor

SpecColor == InitColor /\ [][NextColor]_vars

(***************************************************************************)
(* C5: Custom without an album colour resolves exactly as Cyan does, for   *)
(* every intensity in [0,1] and every level (0..3 and larger).             *)
(***************************************************************************)
C5_CustomFallbackIsCyan ==
    (pc = "output" /\ scheme = "Custom" /\ album_color = None)
        => color = get_color_for_scheme("Cyan", intensity, level, None)

C5_Witness ==
    /\ pc = "output" /\ scheme = "Custom" /\ album_color = None
    /\ intensity[1] = intensity[2] /\ level = 0
    /\ color = <<0, 255, 255>>

(***************************************************************************)
(* C6: Custom with an album colour c, level L in 0..3: each channel is     *)
(* trunc(trunc(c * f_L) * intensity), f = 1.0, 0.85, 0.7, 0.5; at          *)
(* intensity 1.0 and level 0 the result is c itself.  The inner product    *)
(* is the f64 product the claim's expression denotes.                      *)
(***************************************************************************)
C6_Tier(c, lv) ==
    IF lv = 0 THEN c
    ELSE IF lv = 1 THEN F64MulTrunc(c, Lit085)
    ELSE IF lv = 2 THEN F64MulTrunc(c, Lit07)
    ELSE F64MulTrunc(c, Lit05)

C6_CustomScalesAlbumColor ==
    (pc = "output" /\ scheme = "Custom" /\ album_color # None /\ level \in 0..3)
        => /\ \A ch \in 1..3 :
                color[ch] = (C6_Tier(album_color[1][ch], level) * intensity[1])
                                \div intensity[2]
           /\ (intensity[1] = intensity[2] /\ level = 0) => color = album_color[1]

C6_Witness ==
    /\ pc = "output" /\ scheme = "Custom"
    /\ album_color = Some(<<100, 50, 200>>)
    /\ intensity[1] = intensity[2] /\ level = 0
    /\ color = <<100, 50, 200>>

(***************************************************************************)
(* C7: a built-in scheme, level in 0..3: each channel is                   *)
(* trunc(base * intensity), never above the base channel, and the base     *)
(* colour itself at intensity 1.0; (Cyan, 1.0, 0) is (0,255,255).  Both    *)
(* copies of the resolver (visualizations.rs, main.rs) agree.              *)
(***************************************************************************)
C7_BuiltinScalesBase ==
    (pc = "output" /\ scheme \in BuiltinSchemes /\ level \in 0..3)
        => LET base == SchemeBase(scheme, level) IN
           /\ \A ch \in 1..3 :
                /\ color[ch] = (base[ch] * intensity[1]) \div intensity[2]
                /\ color[ch] <= base[ch]
           /\ (intensity[1] = intensity[2]) => color = base
           /\ (scheme = "Cyan" /\ level = 0 /\ intensity[1] = intensity[2])
                 => color = <<0, 255, 255>>
           /\ color = demo_get_color_for_scheme(scheme, intensity, level)

C7_Witness ==
    /\ pc = "output" /\ scheme = "Cyan" /\ album_color = None
    /\ intensity[1] = intensity[2] /\ level = 0
    /\ color = <<0, 255, 255>>

(***************************************************************************)
(* spotify_player/src/ui/visualizations.rs: generate_color_palette         *)
(***************************************************************************)
LightenBy == 60
DarkenBy == 60

\* mutant of saturating_add: the addition wraps around as a plain u8 `+`
\* does in a release build
saturating_add_wrapping(a, b) == (a + b) % 256

\* u8::saturating_add
saturating_add(a, b) == Min(a + b, 255)

\* u8::saturating_sub
saturating_sub(a, b) == Max(a - b, 0)

\* `((p as f64 * 0.8 + q as f64 * 0.2) as u8).min(255)`.  For all p, q in
\* 0..255 the f64 expression truncates to floor((8p + 2q) / 10).
Blend(p, q) == Min(AsU8(8 * p + 2 * q, 10), 255)

generate_color_palette(r, g, b) ==
    << <<r, g, b>>,
       << saturating_sub(255, r), saturating_sub(255, g), saturating_sub(255, b) >>,
       << Blend(r, g), Blend(g, b), Blend(b, r) >>,
       << Blend(b, r), Blend(r, g), Blend(g, b) >>,
       << saturating_add(r, LightenBy), saturating_add(g, LightenBy),
          saturating_add(b, LightenBy) >>,
       << saturating_sub(r, DarkenBy), saturating_sub(g, DarkenBy),
          saturating_sub(b, DarkenBy) >> >>

PaletteChanVals == {0, 59, 60, 61, 100, 195, 196, 255}

InitPalette ==
    /\ pc = "input"
    /\ rgb \in { <<r, g, b>> : r \in PaletteChanVals, g \in PaletteChanVals,
                               b \in PaletteChanVals }
    /\ palette = <<>>
    /\ IdleMain /\ IdleApp /\ IdleRender /\ album_color = None /\ IdleColor
    /\ IdleImage

GeneratePalette ==
    /\ pc = "input"
    /\ palette' = generate_color_palette(rgb[1], rgb[2], rgb[3])
    /\ pc' = "output"
    /\ UNCHANGED <<mainVars, appVars, renderVars, album_color, colorVars, rgb,
                   imageVars>>

NextPalette == GeneratePalette

SpecPalette == InitPalette /\ [][NextPalette]_vars

(***************************************************************************)
(* C8: the palette has exactly 6 colours, in the order base, complement    *)
(* (255 - c), first blend, second blend, lightened (c + 60 capped at 255), *)
(* darkened (c - 60 floored at 0), every channel within 0..255.            *)
(***************************************************************************)
C8_PaletteOfSix ==
    pc = "output" =>
        /\ Len(palette) = 6
        /\ \A k \in 1..6 : \A ch \in 1..3 : palette[k][ch] \in 0..255
        /\ palette[1] = rgb
        /\ \A ch \in 1..3 :
             /\ palette[2][ch] = 255 - rgb[ch]
             /\ palette[5][ch] = (IF rgb[ch] + 60 > 255 THEN 255 ELSE rgb[ch] + 60)
             /\ palette[6][ch] = (IF rgb[ch] < 60 THEN 0 ELSE rgb[ch] - 60)
        /\ palette[3] = << (8 * rgb[1] + 2 * rgb[2]) \div 10,
                           (8 * rgb[2] + 2 * rgb[3]) \div 10,
                           (8 * rgb[3] + 2 * rgb[1]) \div 10 >>
        /\ palette[4] = << (2 * rgb[1] + 8 * rgb[3]) \div 10,
                           (2 * rgb[2] + 8 * rgb[1]) \div 10,
                           (2 * rgb[3] + 8 * rgb[2]) \div 10 >>

\* a base colour for which both saturations act
C8_Witness ==
    /\ pc = "output" /\ rgb = <<255, 0, 196>>
    /\ palette[5] = <<255, 60, 255>>
    /\ palette[6] = <<195, 0, 136>>

(***************************************************************************)
(* spotify_player/src/utils.rs: extract_dominant_color                     *)
(***************************************************************************)
ResizeSide == 64
SampleStride == 4
DarkLimit == 20
LightLimit == 235
FallbackColor == <<0, 200, 255>>

\* image::DynamicImage::resize(64, 64, Nearest): the size that fits the
\* 64x64 box with the aspect ratio kept (each side rounded, at least 1)
ResizedWidth(im) ==
    IF im.w >= im.h THEN ResizeSide
    ELSE Max((2 * ResizeSide * im.w + im.h) \div (2 * im.h), 1)

ResizedHeight(im) ==
    IF im.h >= im.w THEN ResizeSide
    ELSE Max((2 * ResizeSide * im.h + im.w) \div (2 * im.w), 1)

\* the Nearest filter: the resized pixel (x, y) is the source pixel under
\* its centre
ResizedPixel(im, x, y) ==
    LET sx == Min(((2 * x + 1) * im.w) \div (2 * ResizedWidth(im)), im.w - 1)
        sy == Min(((2 * y + 1) * im.h) \div (2 * ResizedHeight(im)), im.h - 1)
    IN  im.px[sy + 1][sx + 1]

\* line 116: (rgb[0] as u16 + rgb[1] as u16 + rgb[2] as u16) / 3
Brightness(c) == (c[1] + c[2] + c[3]) \div 3

\* mutant of Accepted: the dark limit is inclusive
Accepted_inclusive(c) == Brightness(c) >= DarkLimit /\ Brightness(c) < LightLimit

\* line 117: brightness > 20 && brightness < 235
Accepted(c) == Brightness(c) > DarkLimit /\ Brightness(c) < LightLimit

\* the sampled pixels (x % 4 == 0 && y % 4 == 0) of the resized image, in
\* row-major order: sample k is column 4*(k mod cols), row 4*(k div cols)
SampleCols(im) == (ResizedWidth(im) + SampleStride - 1) \div SampleStride
SampleRows(im) == (ResizedHeight(im) + SampleStride - 1) \div SampleStride
SamplePixel(im, k) ==
    ResizedPixel(im, SampleStride * (k % SampleCols(im)),
                     SampleStride * (k \div SampleCols(im)))

\* lines 105-108: r_sum, g_sum, b_sum, count
ZeroSums == [r_sum |-> 0, g_sum |-> 0, b_sum |-> 0, count |-> 0]

\* lines 116-122: what one sampled pixel adds to the sums
Contribution(c) ==
    IF Accepted(c)
    THEN [r_sum |-> c[1], g_sum |-> c[2], b_sum |-> c[3], count |-> 1]
    ELSE ZeroSums

AddSums(a, b) ==
    [r_sum |-> a.r_sum + b.r_sum, g_sum |-> a.g_sum + b.g_sum,
     b_sum |-> a.b_sum + b.b_sum, count |-> a.count + b.count]

\* lines 111-124: the sums over the samples of row `row` from column `col`
\* on, and over the rows from `row` on
RECURSIVE AccumulateRow(_, _, _)
AccumulateRow(im, row, col) ==
    IF col = SampleCols(im) THEN ZeroSums
    ELSE AddSums(Contribution(SamplePixel(im, row * SampleCols(im) + col)),
                 AccumulateRow(im, row, col + 1))

RECURSIVE Accumulate(_, _)
Accumulate(im, row) ==
    IF row = SampleRows(im) THEN ZeroSums
    ELSE AddSums(AccumulateRow(im, row, 0), Accumulate(im, row + 1))

extract_dominant_color(im) ==
    LET acc == Accumulate(im, 0)
    IN  IF acc.count = 0
        THEN FallbackColor
        ELSE << (acc.r_sum \div acc.count) % 256,
                (acc.g_sum \div acc.count) % 256,
                (acc.b_sum \div acc.count) % 256 >>

(***************************************************************************)
(* Decoded images: w x h pixels (1..MaxImgSide each way) of a background   *)
(* colour with any set of pixels in a second colour.                       *)
(***************************************************************************)
MaxImgSide == 2

PixelColors ==
    { <<0, 0, 0>>, <<20, 20, 20>>, <<20, 20, 22>>, <<21, 21, 21>>,
      <<127, 127, 127>>, <<100, 50, 200>>, <<234, 234, 234>>,
      <<235, 235, 235>>, <<255, 255, 255>> }

SecondColors == { <<0, 0, 0>>, <<100, 50, 200>>, <<255, 255, 255>> }

MakeImage(w, h, bg, fg, mask) ==
    [w |-> w, h |-> h,
     px |-> [y \in 1..h |-> [x \in 1..w |->
                IF <<x, y>> \in mask THEN fg ELSE bg]]]

Images ==
    UNION { { MakeImage(w, h, bg, fg, mask) :
                bg \in PixelColors, fg \in SecondColors,
                mask \in SUBSET ((1..w) \X (1..h)) } :
            w \in 1..MaxImgSide, h \in 1..MaxImgSide }

InitImage ==
    /\ pc = "input"
    /\ img \in Images
    /\ dominant = <<>>
    /\ IdleMain /\ IdleApp /\ IdleRender /\ album_color = None /\ IdleColor
    /\ IdlePalette

ExtractDominantColor ==
    /\ pc = "input"
    /\ dominant' = extract_dominant_color(img)
    /\ pc' = "output"
    /\ UNCHANGED <<mainVars, appVars, renderVars, album_color, colorVars,
                   paletteVars, img>>

NextImage == ExtractDominantColor

SpecImage == InitImage /\ [][NextImage]_vars

(***************************************************************************)
(* C9: on an image whose pixels all have one colour c the result is c when *)
(* 20 < (r+g+b)/3 < 235 (integer division) and the fallback (0,200,255)    *)
(* otherwise; whenever no sampled pixel passes the filter the result is    *)
(* the fallback.                                                           *)
(***************************************************************************)
C9_Uniform(im) == \A y \in 1..im.h : \A x \in 1..im.w : im.px[y][x] = im.px[1][1]

C9_InBand(c) == 20 < (c[1] + c[2] + c[3]) \div 3 /\ (c[1] + c[2] + c[3]) \div 3 < 235

C9_UniformImageOrFallback ==
    pc = "output" =>
        /\ C9_Uniform(img) =>
              dominant = (IF C9_InBand(img.px[1][1]) THEN img.px[1][1]
                          ELSE <<0, 200, 255>>)
        /\ (\A y \in 1..img.h : \A x \in 1..img.w : ~C9_InBand(img.px[y][x]))
              => dominant = <<0, 200, 255>>

C9_Witness ==
    /\ pc = "output"
    /\ img.w = 2 /\ img.h = 1
    /\ C9_Uniform(img) /\ img.px[1][1] = <<127, 127, 127>>
    /\ dominant = <<127, 127, 127>>

(***************************************************************************)
(* Fixed-point f64 helpers of the renderers.                               *)
(***************************************************************************)
\* Rust's `%` on f64 (fmod): the result has the sign of the dividend
FMod(a, m) == IF a >= 0 THEN a % m ELSE -((-a) % m)

\* f64::round of n/d (d > 0): half away from zero
RoundHalfAway(n, d) ==
    IF n >= 0 THEN (2 * n + d) \div (2 * d) ELSE -((2 * (-n) + d) \div (2 * d))

\* `v as usize` of an integral float: negative values saturate to 0
AsUsize(v) == Max(v, 0)

\* floor of the square root, by bisection: lo*lo <= n < hi*hi
RECURSIVE IsqrtBetween(_, _, _)
IsqrtBetween(n, lo, hi) ==
    IF hi - lo <= 1 THEN lo
    ELSE LET mid == (lo + hi) \div 2 IN
         IF mid * mid <= n THEN IsqrtBetween(n, mid, hi)
         ELSE IsqrtBetween(n, lo, mid)

Isqrt(n) == IsqrtBetween(n, 0, 46341)

\* sine in units of 1/SinScale of an angle in units of 1/SinScale
SinScale == 10000
PiFp == 31416

\* the Taylor polynomial u - u^3/3! + u^5/5! - u^7/7! + u^9/9! on [0, pi/2]
SinTaylor(u) ==
    LET u2 == (u * u) \div SinScale
        t3 == ((u * u2) \div SinScale) \div 6
        t5 == ((t3 * u2) \div SinScale) \div 20
        t7 == ((t5 * u2) \div SinScale) \div 42
        t9 == ((t7 * u2) \div SinScale) \div 72
    IN  Min(u - t3 + t5 - t7 + t9, SinScale)

\* f64::sin for an angle t >= 0
SinFp(t) ==
    LET r == t % (2 * PiFp)
        h == IF r > PiFp THEN r - PiFp ELSE r
        v == IF 2 * h > PiFp THEN SinTaylor(PiFp - h) ELSE SinTaylor(h)
    IN  IF r > PiFp THEN -v ELSE v

(***************************************************************************)
(* spotify_player/src/ui/visualizations.rs: render_concentric_waves, the   *)
(* linear wave.  beat_progress is bp / LinearPhaseSteps.  show_border only *)
(* wraps the grid in a Block and is left out.                              *)
(***************************************************************************)
MaxWidth == 10
MaxHeight == 6
LinearPhaseSteps == 4

ColorBlack == <<>>
DefaultWaveColor == <<0, 255, 255>>

\* lines 63-68
WaveColor(album) == IF album # None THEN album[1] ELSE DefaultWaveColor

\* lines 71-82: wave_y.round() as usize for column x, where
\* wave_y = height/2 + sin(x*0.2 + beat_progress*0.05) * max(height/5, 1.5)
WavePosition(a, bp, x) ==
    LET angle == (2 * SinScale * x) \div 10
                 + (5 * SinScale * bp) \div (100 * LinearPhaseSteps)
        \* wave_y * 10 * SinScale
        wave_y == 5 * a.height * SinScale + SinFp(angle) * Max(2 * a.height, 15)
    IN  AsUsize(RoundHalfAway(wave_y, 10 * SinScale))

\* lines 86-104: the grid; text[y][x] is the cell of row y, column x
LinearWaveText(a, bp, album) ==
    [y \in 0..(a.height - 1) |->
        [x \in 0..(a.width - 1) |->
            IF y = WavePosition(a, bp, x)
            THEN [glyph |-> "block", color |-> WaveColor(album)]
            ELSE [glyph |-> " ", color |-> ColorBlack]]]

Areas == { [width |-> w, height |-> h] : w \in 1..MaxWidth, h \in 1..MaxHeight }

InitLinear ==
    /\ pc = "input"
    /\ area \in Areas
    /\ beat_progress \in 0..(LinearPhaseSteps - 1)
    /\ album_color \in {None, Some(<<100, 50, 200>>)}
    /\ elapsed = 0 /\ text = <<>>
    /\ IdleMain /\ IdleApp /\ IdleColor /\ IdlePalette /\ IdleImage

RenderLinear ==
    /\ pc = "input"
    /\ text' = LinearWaveText(area, beat_progress, album_color)
    /\ pc' = "output"
    /\ UNCHANGED <<mainVars, appVars, area, elapsed, beat_progress,
                   album_color, colorVars, paletteVars, imageVars>>

NextLinear == RenderLinear

SpecLinear == InitLinear /\ [][NextLinear]_vars

(***************************************************************************)
(* C2: for every area of width >= 1 and height >= 1 and every              *)
(* beat_progress in [0,1) each column has exactly one lit cell, and the    *)
(* lit row wave_y lies in 0..height-1.                                     *)
(***************************************************************************)
C2_LitRows(x) == { y \in 0..(area.height - 1) : text[y][x].glyph # " " }

C2_OneLitCellPerColumn ==
    pc = "output" =>
        \A x \in 0..(area.width - 1) :
            /\ Cardinality(C2_LitRows(x)) = 1
            /\ WavePosition(area, beat_progress, x) \in 0..(area.height - 1)

(***************************************************************************)
(* waveform_test/src/main.rs: render_concentric_waves, the radial waves.   *)
(* elapsed is in twentieths of a second, so elapsed * bpm / 60 beats is    *)
(* elapsed * bpm / PhaseDen and beat_progress is a numerator over          *)
(* PhaseDen.  Distances and intensities are in units of 1/DistScale.       *)
(***************************************************************************)
PhaseDen == 1200
DistScale == 2400
MaxElapsed == 8
WaveSpeed == 15
WavePeriod == 5

\* the values App.simulated_bpm takes: 120 moved by steps of 10 in [60, 200]
Bpms == { b \in MinBpm..MaxBpm : b % BpmStep = 0 }

\* mutant of BeatProgress: the `% 1.0` is left out
BeatProgress_no_wrap(e, bpm) == e * bpm

\* line 178: (elapsed * app.simulated_bpm / 60.0) % 1.0
BeatProgress(e, bpm) == FMod(e * bpm, PhaseDen)

\* line 182: beat_progress * 15.0
WaveOffset(bp) == (WaveSpeed * bp * DistScale) \div PhaseDen

\* lines 180-181, 188-190: with center = (width/2, height/2),
\* dx = x - center_x and dy = (y - center_y) * 2; doubled they are integers
Dist(a, x, y) ==
    LET dx2 == 2 * x - a.width
        dy2 == 2 * (2 * y - a.height)
    IN  Isqrt((dx2 * dx2 + dy2 * dy2) * (DistScale \div 2) * (DistScale \div 2))

\* lines 192-197
Intensity(a, bp, x, y) ==
    LET wave_phase == FMod(Dist(a, x, y) - WaveOffset(bp), WavePeriod * DistScale)
    IN  IF wave_phase < DistScale THEN DistScale - wave_phase ELSE 0

\* mutant of RadialCell: the second band asks the resolver for level 2
RadialCell_copied_level(s, i) ==
    LET sch == color_scheme(s)
        amt == <<i, DistScale>>
    IN  IF 10 * i > 7 * DistScale
        THEN [glyph |-> "solid", level |-> 0, intensity |-> i,
              color |-> demo_get_color_for_scheme(sch, amt, 0)]
        ELSE IF 10 * i > 5 * DistScale
        THEN [glyph |-> "ring", level |-> 2, intensity |-> i,
              color |-> demo_get_color_for_scheme(sch, amt, 2)]
        ELSE IF 10 * i > 3 * DistScale
        THEN [glyph |-> "hollow", level |-> 2, intensity |-> i,
              color |-> demo_get_color_for_scheme(sch, amt, 2)]
        ELSE IF 100 * i > 15 * DistScale
        THEN [glyph |-> "dot", level |-> 3, intensity |-> i,
              color |-> demo_get_color_for_scheme(sch, amt, 3)]
        ELSE [glyph |-> " ", level |-> -1, intensity |-> i,
              color |-> ColorBlack]

\* lines 200-210: glyph, resolver level and colour of a cell
RadialCell(s, i) ==
    LET sch == color_scheme(s)
        amt == <<i, DistScale>>
    IN  IF 10 * i > 7 * DistScale
        THEN [glyph |-> "solid", level |-> 0, intensity |-> i,
              color |-> demo_get_color_for_scheme(sch, amt, 0)]
        ELSE IF 10 * i > 5 * DistScale
        THEN [glyph |-> "ring", level |-> 1, intensity |-> i,
              color |-> demo_get_color_for_scheme(sch, amt, 1)]
        ELSE IF 10 * i > 3 * DistScale
        THEN [glyph |-> "hollow", level |-> 2, intensity |-> i,
              color |-> demo_get_color_for_scheme(sch, amt, 2)]
        ELSE IF 100 * i > 15 * DistScale
        THEN [glyph |-> "dot", level |-> 3, intensity |-> i,
              color |-> demo_get_color_for_scheme(sch, amt, 3)]
        ELSE [glyph |-> " ", level |-> -1, intensity |-> i,
              color |-> ColorBlack]

\* lines 184-215: the grid; text[y][x] is the cell of row y, column x
RadialWaveText(a, s, bp) ==
    [y \in 0..(a.height - 1) |->
        [x \in 0..(a.width - 1) |-> RadialCell(s, Intensity(a, bp, x, y))]]

InitRadial ==
    /\ pc = "input"
    /\ area \in Areas
    /\ current_color_scheme \in 0..(NumSchemes - 1)
    /\ simulated_bpm \in Bpms
    /\ elapsed \in 0..MaxElapsed
    /\ beat_progress = 0 /\ text = <<>>
    /\ album_color = None
    /\ IdleMain /\ IdleColor /\ IdlePalette /\ IdleImage

RenderRadial ==
    /\ pc = "input"
    /\ beat_progress' = BeatProgress(elapsed, simulated_bpm)
    /\ text' = RadialWaveText(area, current_color_scheme, beat_progress')
    /\ pc' = "output"
    /\ UNCHANGED <<mainVars, appVars, area, elapsed, album_color, colorVars,
                   paletteVars, imageVars>>

NextRadial == RenderRadial

SpecRadial == InitRadial /\ [][NextRadial]_vars

(***************************************************************************)
(* C3: the intensity of every cell of the radial renderer lies in [0,1].   *)
(***************************************************************************)
C3_IntensityInUnitInterval ==
    pc = "output" =>
        \A y \in 0..(area.height - 1) : \A x \in 0..(area.width - 1) :
            /\ text[y][x].intensity >= 0
            /\ text[y][x].intensity <= DistScale

(***************************************************************************)
(* C4: the beat phase (elapsed * bpm / 60) mod 1.0 computed for a frame is *)
(* >= 0 and < 1, for every elapsed >= 0 and bpm > 0.                       *)
(***************************************************************************)
C4_BeatPhaseInUnitInterval ==
    pc = "output" => (beat_progress >= 0 /\ beat_progress < PhaseDen)

\* a frame more than one beat after the start, strictly inside a beat
C4_Witness ==
    /\ pc = "output"
    /\ elapsed * simulated_bpm > PhaseDen
    /\ beat_progress > 0

(***************************************************************************)
(* C10: for a square area and beat_progress = 0 the intensity field is     *)
(* mirror-symmetric about the centre column: cell (x, y) and cell          *)
(* (N-1-x, y) have the same intensity.                                     *)
(***************************************************************************)
C10_SymmetricAboutCentreColumn ==
    (pc = "output" /\ area.width = area.height /\ beat_progress = 0) =>
        \A y \in 0..(area.height - 1) : \A x \in 0..(area.width - 1) :
            text[y][x].intensity = text[y][area.width - 1 - x].intensity

(***************************************************************************)
(* C11: every cell falls in exactly one of five bands by its intensity     *)
(* (> 0.7, > 0.5, > 0.3, > 0.15, else), which are tier levels 0, 1, 2, 3   *)
(* and blank; the four non-blank bands have distinct glyphs and take their *)
(* colour from the resolver called with that level and the cell's          *)
(* intensity; the blank band is a space and is not coloured by the         *)
(* resolver.  Intensities are in units of 1/2400.                          *)
(***************************************************************************)
C11_Band(i) ==
    IF i > 1680 THEN 0
    ELSE IF i > 1200 THEN 1
    ELSE IF i > 720 THEN 2
    ELSE IF i > 360 THEN 3
    ELSE 4

C11_Glyph(b) ==
    CASE b = 0 -> "solid" [] b = 1 -> "ring" [] b = 2 -> "hollow"
      [] b = 3 -> "dot" [] OTHER -> " "

C11_Cells == { text[y][x] : y \in 0..(area.height - 1), x \in 0..(area.width - 1) }

C11_BandMapping ==
    pc = "output" =>
        /\ \A b1 \in 0..4 : \A b2 \in 0..4 :
              b1 # b2 => C11_Glyph(b1) # C11_Glyph(b2)
        /\ \A c \in C11_Cells :
              LET b == C11_Band(c.intensity) IN
              /\ c.glyph = C11_Glyph(b)
              /\ b < 4 =>
                    /\ c.level = b
                    /\ c.color = demo_get_color_for_scheme(
                                     color_scheme(current_color_scheme),
                                     <<c.intensity, 2400>>, b)
              /\ b = 4 => (c.level = -1 /\ c.color = ColorBlack)

\* one frame that shows all five bands
C11_Witness ==
    /\ pc = "output"
    /\ { c.glyph : c \in C11_Cells } = {"solid", "ring", "hollow", "dot", " "}
    /\ \E c \in C11_Cells : c.glyph = "ring" /\ c.color # ColorBlack

=============================================================================
